---- MODULE Spec2Model ----
(***************************************************************************)
(* Sky3DS_Disk (sky3ds/disk.py): the layout engine of a sky3ds sdcard.     *)
(*                                                                         *)
(* The device is a byte array.  It is kept run-length encoded: a sequence  *)
(* of runs [lo, hi, t] that tile [0, disk_size), where the token t says    *)
(* what the bytes of the run are:                                          *)
(*   fill  every byte is the value a                                       *)
(*   rec   struct.pack("ii", a, b), the byte at x being byte x - base      *)
(*   rom   the byte at x is byte x - base of rom file a                    *)
(*   hdr   the byte at x is byte x - base of the card_data built for rom a *)
(*   magic the byte at x is byte x - base of "ROMS"                        *)
(*   crc   the byte at x is byte x - base of the two bytes, high one       *)
(*         first, of titles.crc16 of the byte string in field of           *)
(*   save  the byte at x is byte x - base of part b (0 the unique id, 1    *)
(*         the savegame) of a savegame backup made elsewhere for game a    *)
(* All offsets and sizes are the program's own, in bytes.                  *)
(***************************************************************************)
EXTENDS Integers, Sequences, FiniteSets

VARIABLES
    disk,            \* the bytes of the device behind diskfp
    disk_size,       \* self.disk_size
    pos,             \* the file position of diskfp
    is_sky3ds_disk,  \* self.is_sky3ds_disk
    rom_list,        \* self.rom_list
    free_blocks,     \* self.free_blocks
    out,             \* the output file the last call wrote, if it wrote one
    last,            \* the last call: its name, argument and how it ended
    undo,            \* the device as the last write_rom found it, kept for the
                     \* dump_rom or delete_rom of its slot that follows it
    ops,             \* the number of calls made
    log              \* the write and fsync calls of the last call, in order

vars == <<disk, disk_size, pos, is_sky3ds_disk, rom_list, free_blocks,
          out, last, undo, ops, log>>

\* ------------------------------------------------------------ constants
SectorBytes == 512
MiB == 1048576
BlockBytes == 33554432
BlockSectors == 65536
position_header_length == 256
RecordBytes == 8
MagicOffset == 256
MagicBytes == 4
FormatHeaderBytes == 512
SavegameSlots == 31
WriteChunk == 8388608
CardDataOffset == 5120
CardDataBytes == 512
ChecksumBytes == 2
UniqueIdOffset == 64
UniqueIdBytes == 64
NcsdHeaderBytes == 4608
SavegameChunks == 10
DumpChunk == 1048576
FF == 255

\* ------------------------------------------------------------ bounds
NumBlocks == 5
InitRoms == 2
FullBlocks == 33
MaxOps == 3
FullOps == 1
AllocBlocks == 7

\* ------------------------------------------------------------ helpers
Min(a, b) == IF a < b THEN a ELSE b
Max(a, b) == IF a > b THEN a ELSE b
Last(s) == s[Len(s)]

\* ------------------------------------------------------------ tokens
Fill(v) == [k |-> "fill", a |-> v, b |-> 0, base |-> 0, of |-> <<>>]
Rec(a, b, at) == [k |-> "rec", a |-> a, b |-> b, base |-> at, of |-> <<>>]
RomData(id, at) == [k |-> "rom", a |-> id, b |-> 0, base |-> at, of |-> <<>>]
CardData(id, gen, at) ==
    [k |-> "hdr", a |-> id, b |-> gen, base |-> at, of |-> <<>>]
Magic(at) == [k |-> "magic", a |-> 0, b |-> 0, base |-> at, of |-> <<>>]
Crc(data, at) == [k |-> "crc", a |-> 0, b |-> 0, base |-> at, of |-> data]
SaveData(id, part, at) ==
    [k |-> "save", a |-> id, b |-> part, base |-> at, of |-> <<>>]

Run(lo, hi, t) == [lo |-> lo, hi |-> hi, t |-> t]

\* the token of bytes moved by d: a fill is the same bytes anywhere
Moved(t, d) == IF t.k = "fill" THEN t ELSE [t EXCEPT !.base = @ + d]

\* ------------------------------------------------------------ byte strings
\* A byte string is a sequence of runs tiling [s[1].lo, Last(s).hi), no two
\* neighbours with the same token.

\* a followed by b, which starts where a ends
Join(a, b) ==
    IF a = <<>> THEN b
    ELSE IF b = <<>> THEN a
    ELSE IF Last(a).t = b[1].t
         THEN SubSeq(a, 1, Len(a) - 1)
              \o <<Run(Last(a).lo, b[1].hi, b[1].t)>>
              \o SubSeq(b, 2, Len(b))
         ELSE a \o b

\* the sequence f as a tuple (TLC then evaluates its elements once)
Seq0(f) == <<>> \o f

\* bytes [lo, hi) of s
Slice(s, lo, hi) ==
    LET keep == SelectSeq(s, LAMBDA r : r.lo < hi /\ r.hi > lo)
    IN  Seq0([i \in 1..Len(keep) |->
                Run(Max(keep[i].lo, lo), Min(keep[i].hi, hi), keep[i].t)])

\* the same bytes, d further on
Shift(s, d) ==
    Seq0([i \in 1..Len(s) |->
             Run(s[i].lo + d, s[i].hi + d, Moved(s[i].t, d))])

Bytes(lo, n, t) == IF n > 0 THEN <<Run(lo, lo + n, t)>> ELSE <<>>

ByteLen(s) == IF s = <<>> THEN 0 ELSE Last(s).hi - s[1].lo

\* diskfp.seek(at); diskfp.write(data): data is a byte string starting at 0
WriteAt(d, at, data) ==
    LET n == ByteLen(data)
        size == Last(d).hi
    IN  Join(Join(Slice(d, 0, at), Shift(data, at)), Slice(d, at + n, size))

\* the sequence s repeated n times
Repeat(n, s) == [i \in 1..(n * Len(s)) |-> s[((i - 1) % Len(s)) + 1]]

\* diskfp.seek(at); diskfp.read(n): a byte string starting at 0
ReadAt(d, at, n) == Shift(Slice(d, at, at + n), 0 - at)

\* ------------------------------------------------------------ slot table
\* the 32-bit signed integer whose four bytes are all v
FillInt(v) == (IF v >= 128 THEN v - 256 ELSE v) * 16777216 + v * 65793

\* struct.unpack("ii", raw): raw is 8 bytes starting at 0
Unpack(raw) ==
    IF Len(raw) = 1 /\ raw[1].t.k = "rec" /\ raw[1].t.base = 0
    THEN <<raw[1].t.a, raw[1].t.b>>
    ELSE IF Len(raw) = 1 /\ raw[1].t.k = "fill"
         THEN <<FillInt(raw[1].t.a), FillInt(raw[1].t.a)>>
         ELSE <<0, 0>>

\* record i of the position header of d
Position(d, i) == Unpack(ReadAt(d, i * RecordBytes, RecordBytes))

\* is record i of the position header of d the record of a rom
Occupied(d, i) == Position(d, i)[1] > 0 /\ Position(d, i)[2] > 0

\* the loop over the 32 records: those with both fields > 0, in the order of
\* the header, each numbered len(positions), i.e. by the occupied ones before it
Positions(d) ==
    LET n == position_header_length \div RecordBytes
        occupied == {i \in 0..(n - 1) : Occupied(d, i)}
        at(k) == CHOOSE i \in occupied :
                    Cardinality({j \in occupied : j < i}) = k
    IN  Seq0([k \in 1..Cardinality(occupied) |->
                [slot |-> k - 1,
                 start |-> Position(d, at(k - 1))[1] * SectorBytes,
                 size |-> Position(d, at(k - 1))[2] * SectorBytes]])

\* ------------------------------------------------------------ block map
\* TRUE is 'X' (used), FALSE is ' ' (free)
BlockMap(roms, max_blocks) ==
    [blk \in 0..(max_blocks - 1) |->
        \/ blk = 0
        \/ \E r \in 1..Len(roms) :
              LET start == roms[r].start \div BlockBytes
                  size == roms[r].size \div BlockBytes
              IN  start <= blk /\ blk < start + size]

\* the loop over block_map: i is the index, start_block the open run (0: none)
RECURSIVE ScanBlocks(_, _, _, _)
ScanBlocks(block_map, i, start_block, free) ==
    IF i \notin DOMAIN block_map
    THEN IF start_block # 0 THEN Append(free, <<start_block, i - start_block>>)
         ELSE free
    ELSE IF ~block_map[i] /\ start_block = 0
         THEN ScanBlocks(block_map, i + 1, i, free)
         ELSE IF block_map[i] /\ start_block # 0
              THEN ScanBlocks(block_map, i + 1, 0,
                              Append(free, <<start_block, i - start_block>>))
              ELSE ScanBlocks(block_map, i + 1, start_block, free)

\* a sort that puts a region before those of its length
InsertDescBeforeEqual(sorted, e) ==
    LET later == {i \in 1..Len(sorted) : sorted[i][2] <= e[2]}
        at == IF later = {} THEN Len(sorted) + 1
              ELSE CHOOSE i \in later : \A j \in later : i <= j
    IN  SubSeq(sorted, 1, at - 1) \o <<e>> \o SubSeq(sorted, at, Len(sorted))

\* sorted(free_blocks, key=lambda x: x[1], reverse=True): stable
InsertDesc(sorted, e) ==
    LET later == {i \in 1..Len(sorted) : sorted[i][2] < e[2]}
        at == IF later = {} THEN Len(sorted) + 1
              ELSE CHOOSE i \in later : \A j \in later : i <= j
    IN  SubSeq(sorted, 1, at - 1) \o <<e>> \o SubSeq(sorted, at, Len(sorted))

RECURSIVE SortDesc(_, _, _)
SortDesc(free, i, sorted) ==
    IF i > Len(free) THEN sorted
    ELSE SortDesc(free, i + 1, InsertDesc(sorted, free[i]))

\* the free regions in the order of the scan, not sorted
FreeBlocksScanOrder(roms, size) ==
    LET found == ScanBlocks(BlockMap(roms, size \div BlockBytes), 0, 0, <<>>)
    IN  Seq0([i \in 1..Len(found) |->
                <<found[i][1] * BlockSectors, found[i][2] * BlockSectors>>])

\* the sorted free regions converted with 0x8000 sectors to the block
FreeBlocksHalfBlocks(roms, size) ==
    LET block_map == BlockMap(roms, size \div BlockBytes)
        sorted == SortDesc(ScanBlocks(block_map, 0, 0, <<>>), 1, <<>>)
    IN  Seq0([i \in 1..Len(sorted) |->
                <<sorted[i][1] * (BlockSectors \div 2),
                  sorted[i][2] * (BlockSectors \div 2)>>])

FreeBlocks(roms, size) ==
    LET block_map == BlockMap(roms, size \div BlockBytes)
        sorted == SortDesc(ScanBlocks(block_map, 0, 0, <<>>), 1, <<>>)
    IN  Seq0([i \in 1..Len(sorted) |->
                <<sorted[i][1] * BlockSectors, sorted[i][2] * BlockSectors>>])

\* ------------------------------------------------------------ format
\* a check that never fails
NeverFails(formatted) == FALSE

\* fail_on_non_sky3ds: does it raise
FailOnNonSky3ds(formatted) == ~formatted

\* check_if_sky3ds_disk: b'ROMS' == the four bytes at 0x100
HasMagic(d) == ReadAt(d, MagicOffset, MagicBytes) = Bytes(0, MagicBytes, Magic(0))

\* for i in range(1, 31): the last savegame slot is left as it is
EraseSavegamesButLast(d) ==
    WriteAt(d, MiB, Bytes(0, (SavegameSlots - 1) * MiB, Fill(FF)))

\* for i in range(1, 32): seek(i * 0x100000); write 0xff * 0x100000.  The 31
\* writes follow each other on the device: they are one write of 31 MiB.
EraseSavegames(d) == WriteAt(d, MiB, Bytes(0, SavegameSlots * MiB, Fill(FF)))

Formatted(d) ==
    LET head == Bytes(0, MagicOffset, Fill(FF))
                \o Bytes(MagicOffset, MagicBytes, Magic(MagicOffset))
                \o Bytes(MagicOffset + MagicBytes,
                         FormatHeaderBytes - MagicOffset - MagicBytes, Fill(FF))
    IN  EraseSavegames(WriteAt(d, 0, head))

\* the calls of format
FormatLog ==
    Repeat(3, <<"table">>) \o Repeat(SavegameSlots, <<"staging">>) \o <<"fsync">>

\* update_rom_list, the part that reads the position header
RomList(d) == Positions(d)

\* ------------------------------------------------------------ rom files
\* The rom files add is called with.  template: titles.get_template finds
\* one for the rom's serial and sha1.  product_code, card_type and
\* writable_address are what gamecard.ncsd_header decodes from the rom's
\* first 0x1200 bytes.  inject: the call is made with use_header_bin and a
\* header.bin of 0x44 bytes exists ("header_bin"), or the file is a .3dz
\* whose bytes at 0x1200 are not 0xff ("3dz").
RomFiles ==
    << [size |-> 33554432, template |-> TRUE, product_code |-> 1,
        card_type |-> "Card1", writable_address |-> 0,
        inject |-> "none"],
       [size |-> 67108864, template |-> TRUE, product_code |-> 2,
        card_type |-> "Card2", writable_address |-> 16777216,
        inject |-> "header_bin"],
       [size |-> 1572864, template |-> TRUE, product_code |-> 3,
        card_type |-> "Card1", writable_address |-> 0,
        inject |-> "none"],
       [size |-> 300, template |-> TRUE, product_code |-> 4,
        card_type |-> "Card1", writable_address |-> 0,
        inject |-> "none"],
       [size |-> 33554532, template |-> FALSE, product_code |-> 5,
        card_type |-> "Card2", writable_address |-> 8388608,
        inject |-> "3dz"],
       [size |-> 300, template |-> FALSE, product_code |-> 6,
        card_type |-> "Card1", writable_address |-> 0,
        inject |-> "none"] >>

RomIds == DOMAIN RomFiles

\* romfp.seek(at); len(romfp.read(n)) on a file of size bytes
ReadLen(size, at, n) == Max(0, Min(n, size - at))

\* len(card_data) of the generated header (no template found)
GeneratedLen(size) ==
    ReadLen(size, 4676, 4) + ReadLen(size, 4672, 4) + ReadLen(size, 4680, 4)
    + 2 + 2 + 8 + 8 + 16 + 16
    + ReadLen(size, 4608, 64) + ReadLen(size, 4432, 16) + 240 + 128

CardDataLen(f) == IF f.template THEN CardDataBytes ELSE GeneratedLen(f.size)

\* which card_data is built for rom file f: 0 the template's, 1 the generated
\* one, plus 2 with the bytes of header.bin and 4 with those of the .3dz in it
Gen(f) ==
    (IF f.template THEN 0 ELSE 1)
    + (IF f.inject = "header_bin" THEN 2 ELSE 0)
    + (IF f.inject = "3dz" THEN 4 ELSE 0)

\* the two bytes (crc16 & 0xFF00) >> 8, crc16 & 0x00FF of crc16(body)
Trailer(body) == Bytes(0, ChecksumBytes, Crc(body, 0))

\* card_data with card_data[-2], card_data[-1] set from crc16(card_data[:-2])
Checksummed(card_data) ==
    LET n == ByteLen(card_data) - ChecksumBytes
        body == Slice(card_data, 0, n)
    IN  Join(body, Shift(Trailer(body), n))

\* the card_data write_rom writes for rom file id
CardDataOf(id) ==
    Checksummed(Bytes(0, CardDataBytes, CardData(id, Gen(RomFiles[id]), 0)))

\* ------------------------------------------------------------ write_rom
\* rom_blocks = int(rom_size / 0x200)
RomBlocks(rom_size) == rom_size \div SectorBytes

\* first fit: the first region of the list, from its head, that is big enough
FindStartFirstFit(free, i, rom_blocks) ==
    LET fits == {j \in 1..i : free[j][2] >= rom_blocks}
    IN  IF fits = {} THEN 0
        ELSE free[CHOOSE j \in fits : \A m \in fits : j <= m][1]

\* for free_block in self.free_blocks[::-1]: the first one big enough
RECURSIVE FindStart(_, _, _)
FindStart(free, i, rom_blocks) ==
    IF i < 1 THEN 0
    ELSE IF free[i][2] >= rom_blocks THEN free[i][1]
         ELSE FindStart(free, i - 1, rom_blocks)

\* a slot search over all 32 records of the position header
FreeSlotOfAll(d) ==
    LET n == position_header_length \div RecordBytes
        free == {i \in 0..(n - 1) : Position(d, i) = <<-1, -1>>}
    IN  IF free = {} THEN -1
        ELSE CHOOSE i \in free : \A j \in free : i <= j

\* the slot search: the first of the records 0..30 that is (-1, -1), or -1
FreeSlot(d) ==
    LET n == position_header_length \div RecordBytes - 1
        free == {i \in 0..(n - 1) : Position(d, i) = <<-1, -1>>}
    IN  IF free = {} THEN -1
        ELSE CHOOSE i \in free : \A j \in free : i <= j

\* the passes of the loop while written < rom_size, 8 MiB read in each
Chunks(rom_size) == (rom_size + WriteChunk - 1) \div WriteChunk

\* the chunk whose write raises, 0 if none does: the first chunk that reaches
\* past the end of the device, or chunk fail if the device fails on it
FailedChunk(size, start, rom_size, fail) ==
    LET past == IF start + rom_size > size
                THEN (size - start) \div WriteChunk + 1 ELSE 0
        dev == IF 0 < fail /\ fail <= Chunks(rom_size) THEN fail ELSE 0
    IN  IF past = 0 THEN dev
        ELSE IF dev = 0 THEN past ELSE Min(past, dev)

\* the bytes of the rom on the device when chunk failed has raised: the
\* chunks before it, and of a chunk that reaches past the end of the device
\* what fits
TransferredLen(size, start, rom_size, fail) ==
    LET failed == FailedChunk(size, start, rom_size, fail)
    IN  IF failed = fail
        THEN (failed - 1) * WriteChunk
        ELSE Min(Min(failed * WriteChunk, rom_size), size - start)

\* a write_rom that writes the record before the rom
InterruptedAfterRecord(d, id, start_block, rom_blocks, free_slot, len) ==
    WriteAt(WriteAt(d, free_slot * RecordBytes,
                    Bytes(0, RecordBytes, Rec(start_block, rom_blocks, 0))),
            start_block * SectorBytes, Bytes(0, len, RomData(id, 0)))

\* the device after a write_rom that raised in the transfer loop with len
\* bytes of the rom written
Interrupted(d, id, start_block, rom_blocks, free_slot, len) ==
    WriteAt(d, start_block * SectorBytes, Bytes(0, len, RomData(id, 0)))

\* the calls of a write_rom that gets through the transfer of chunks chunks
WriteRomLog(chunks) ==
    Repeat(chunks, <<"rom", "fsync">>)
    \o <<"table", "staging", "card_data", "fsync">>

\* the calls of a write_rom whose write of chunk failed raised
InterruptedLog(failed) == Repeat(failed - 1, <<"rom", "fsync">>) \o <<"rom">>

\* the file position the slot search leaves
FreeSlotPos(free_slot) ==
    IF free_slot = -1
    THEN (position_header_length \div RecordBytes - 1) * RecordBytes
    ELSE (free_slot + 1) * RecordBytes

\* self.diskfp.seek(0x100000 * (1 + len(self.rom_list))): where write_rom
\* writes 1 MiB of 0xff
StagingFillAt(roms) == MiB * (1 + Len(roms))

\* the writes of a write_rom that gets through its checks
RomWritten(d, roms, id, start_block, rom_blocks, free_slot) ==
    LET f == RomFiles[id]
        start == start_block * SectorBytes
        d1 == WriteAt(d, start, Bytes(0, f.size, RomData(id, 0)))
        d2 == WriteAt(d1, free_slot * RecordBytes,
                      Bytes(0, RecordBytes, Rec(start_block, rom_blocks, 0)))
        d3 == WriteAt(d2, StagingFillAt(roms), Bytes(0, MiB, Fill(FF)))
    IN  WriteAt(d3, start + CardDataOffset, CardDataOf(id))

\* what write_rom(rom) ends with, from the fields of self and the rom file
WriteRomResult(formatted, free, d, id) ==
    LET f == RomFiles[id]
        rom_blocks == RomBlocks(f.size)
    IN  IF FailOnNonSky3ds(formatted) THEN "NotFormatted"
        ELSE IF FindStart(free, Len(free), rom_blocks) = 0
             THEN "InsufficientSpace"
        ELSE IF FreeSlot(d) = -1 THEN "SlotTableFull"
        ELSE IF CardDataLen(f) # CardDataBytes THEN "InvalidTemplate"
        ELSE "ok"

\* ------------------------------------------------------------ delete_rom
\* while current_save < len(self.rom_list): read the savegame at
\* (current_save + 2) MiB, write it at (current_save + 1) MiB.  Every read is
\* above every write made before it, so the loop moves the n - slot MiB
\* that start at (slot + 2) MiB down by 1 MiB.
SavegamesMoved(d, slot, n) ==
    IF slot >= n THEN d
    ELSE WriteAt(d, MiB * (slot + 1),
                 ReadAt(d, MiB * (slot + 2), MiB * (n - slot)))

\* the file position after the loop: it is not moved when the loop is not entered
SavegamesMovedPos(p, slot, n) == IF slot < n THEN MiB * (n + 1) ELSE p

\* raw_positions[0:slot*8] + raw_positions[(slot+1)*8:] + [0xff]*8, slot >= 0
NewRawPositions(raw, slot) ==
    LET a == Min(slot * RecordBytes, position_header_length)
        b == Min((slot + 1) * RecordBytes, position_header_length)
    IN  Join(Join(Slice(raw, 0, a),
                  Shift(Slice(raw, b, position_header_length), a - b)),
             Bytes(position_header_length - (b - a), RecordBytes, Fill(FF)))

\* the device after the write of 0xff that follows the loop, at position p
SavegameBlanked(d, p) ==
    WriteAt(d, p, Bytes(0, Min(MiB, Last(d).hi - p), Fill(FF)))

\* the calls of delete_rom(slot) with n roms listed; the last one is the
\* write of the position header
DeleteLog(slot, n) ==
    Repeat(Max(n - slot, 0), <<"staging">>) \o <<"staging", "table">>

\* the device after the position header is rewritten
HeaderRewritten(d, slot) ==
    WriteAt(d, 0, NewRawPositions(ReadAt(d, 0, position_header_length), slot))

\* ------------------------------------------------------------ dump_rom
\* self.rom_list[slot] as Python indexes a list of n: 0 is IndexError,
\* otherwise the 1-based index
PyIndex(n, slot) ==
    IF 0 <= slot /\ slot < n THEN slot + 1
    ELSE IF slot < 0 /\ 0 - n <= slot THEN n + slot + 1
         ELSE 0

\* while written < rom_size: read 1 MiB from the device, from position p on.
\* The position the loop ends at: whole chunks are read until rom_size bytes
\* are covered.  (At the end of the device read returns nothing and the loop
\* would not end; no rom of rom_list reaches past the device.)
DumpEnd(p, rom_size, size) ==
    Min(p + ((rom_size + DumpChunk - 1) \div DumpChunk) * DumpChunk, size)

\* outputfp.seek(at); outputfp.write(data) on a file f (a hole reads as zeros)
FileWriteAt(f, at, data) ==
    LET n == ByteLen(data)
        len == ByteLen(f)
        pad == IF at > len THEN Bytes(len, at - len, Fill(0)) ELSE <<>>
    IN  Join(Join(Join(Slice(f, 0, at), pad), Shift(data, at)),
             Slice(f, at + n, len))

\* the output file of dump_rom for a rom at start of rom_size bytes
RomDumped(d, start, rom_size) ==
    LET end == DumpEnd(start, rom_size, Last(d).hi)
    IN  FileWriteAt(ReadAt(d, start, end - start), CardDataOffset,
                    Bytes(0, CardDataBytes, Fill(FF)))

\* ------------------------------------------------------------ gamecard
\* gamecard.ncsd_header(data): the headers the decoder can return for the
\* 0x1200 bytes at the start of a rom.  Bytes that are no rom's first
\* 0x1200 bytes decode to product code 0, of either card type.
NcsdHeader(data) ==
    IF Len(data) = 1 /\ data[1].t.k = "rom" /\ data[1].t.base = 0
       /\ data[1].hi = NcsdHeaderBytes
    THEN {[product_code |-> RomFiles[data[1].t.a].product_code,
           card_type |-> RomFiles[data[1].t.a].card_type,
           writable_address |-> RomFiles[data[1].t.a].writable_address]}
    ELSE {[product_code |-> 0, card_type |-> c, writable_address |-> 0] :
             c \in {"Card1", "Card2"}}

\* are the 0x1200 bytes at start of d the intact header of a rom file, which
\* the decoder reads one way
Decodable(d, start) ==
    Cardinality(NcsdHeader(ReadAt(d, start, NcsdHeaderBytes))) = 1

\* ------------------------------------------------------------ files written
NoFile ==
    [kind |-> "none", product_code |-> 0, card_type |-> "",
     writable_address |-> <<>>, unique_id |-> <<>>, data |-> <<>>]

RomFile(data) == [NoFile EXCEPT !.kind = "rom", !.data = data]

SaveFile(h, wa, uid, data) ==
    [kind |-> "save", product_code |-> h.product_code, card_type |-> h.card_type,
     writable_address |-> wa, unique_id |-> uid, data |-> data]

\* a savegame backup made elsewhere for the game of product code id, with
\* 1 MiB of savegame
ForeignSave(id) ==
    [kind |-> "save", product_code |-> id, card_type |-> "Card1",
     writable_address |-> Bytes(0, 4, Fill(0)),
     unique_id |-> Bytes(0, UniqueIdBytes, SaveData(id, 0, 0)),
     data |-> Bytes(0, MiB, SaveData(id, 1, 0))]

\* ------------------------------------------------------------ write_savegame
\* find_game(product_code): the index in roms, from 1, of the first rom whose
\* header decodes to product_code; 0 is (None, None)
FindGame(d, roms, product_code) ==
    LET found == {i \in 1..Len(roms) :
                    \E h \in NcsdHeader(ReadAt(d, roms[i].start, NcsdHeaderBytes)) :
                        h.product_code = product_code}
    IN  IF found = {} THEN 0
        ELSE CHOOSE i \in found : \A j \in found : i <= j

\* the file position find_game leaves: it reads the header of every rom up to
\* the one it returns
FindGamePos(p, roms, i) ==
    IF Len(roms) = 0 THEN p
    ELSE roms[IF i = 0 THEN Len(roms) ELSE i].start + NcsdHeaderBytes

\* the savegame put one chunk after its place
SavegameAtNextChunk(h, start, slot) ==
    IF h.card_type = "Card1" THEN MiB * (slot + 2)
    ELSE start + h.writable_address + MiB

\* where write_savegame puts the savegame of the rom at start in slot, and
\* how much of it
SavegameAt(h, start, slot) ==
    IF h.card_type = "Card1" THEN MiB * (slot + 1)
    ELSE start + h.writable_address

SavegameLen(h) ==
    IF h.card_type = "Card1" THEN MiB ELSE SavegameChunks * MiB

\* the unique id of backup f written into the card data of the rom at start,
\* the checksum left as it was
UniqueIdOnly(d, start, f) ==
    WriteAt(d, start + CardDataOffset + UniqueIdOffset,
            Slice(f.unique_id, 0, UniqueIdBytes))

\* the device after the unique id of backup f is written into the card data
\* of the rom at start and the checksum of the card data is recalculated
UniqueIdWritten(d, start, f) ==
    LET card == start + CardDataOffset
        d1 == WriteAt(d, card + UniqueIdOffset,
                      Slice(f.unique_id, 0, UniqueIdBytes))
        body == ReadAt(d1, card, CardDataBytes - ChecksumBytes)
    IN  WriteAt(d1, card + CardDataBytes - ChecksumBytes, Trailer(body))

\* the calls of write_savegame for a rom of header h
WriteSavegameLog(h) ==
    <<"card_data", "card_data">>
    \o (IF h.card_type = "Card1" THEN <<"staging", "fsync">>
        ELSE Repeat(SavegameChunks, <<"savegame", "fsync">>))

\* the device after write_savegame of backup f for the rom at start in slot
SavegameWritten(d, start, slot, h, f) ==
    WriteAt(UniqueIdWritten(d, start, f), SavegameAt(h, start, slot),
            Slice(f.data, 0, SavegameLen(h)))

\* ------------------------------------------------------------ the object
Blank(size) == <<Run(0, size, Fill(0))>>

\* the device d after a write_rom of RomFiles[id] that gets through its checks
RomAdded(d, id) ==
    LET roms == RomList(d)
        free == FreeBlocks(roms, Last(d).hi)
        rom_blocks == RomBlocks(RomFiles[id].size)
    IN  RomWritten(d, roms, id, FindStart(free, Len(free), rom_blocks),
                   rom_blocks, FreeSlot(d))

\* the device d after n times write_rom of RomFiles[1]: the first half of
\* them, then the rest
RECURSIVE Filled(_, _)
Filled(d, n) ==
    IF n = 0 THEN d
    ELSE IF n = 1 THEN RomAdded(d, 1)
    ELSE LET half == Filled(d, n \div 2)
         IN  IF half = <<>> THEN half ELSE Filled(half, n - n \div 2)

\* the device d after write_savegame of a backup made elsewhere for its first
\* rom: the game in slot 0 has a savegame
Played(d) ==
    LET start == RomList(d)[1].start
        h == CHOOSE h \in NcsdHeader(ReadAt(d, start, NcsdHeaderBytes)) : TRUE
    IN  SavegameWritten(d, start, 0, h, ForeignSave(h.product_code))

NoUndo == <<>>

\* Sky3DS_Disk(disk_path) on a formatted device
Opened(d, budget) ==
    /\ disk = d
    /\ disk_size = Last(d).hi
    /\ is_sky3ds_disk = HasMagic(d)
    /\ rom_list = RomList(d)
    /\ free_blocks = FreeBlocks(RomList(d), Last(d).hi)
    /\ pos = position_header_length
    /\ ops = MaxOps - budget

\* Sky3DS_Disk(disk_path) on a device without the magic string
OpenedUnformatted(d) ==
    /\ disk = d
    /\ disk_size = Last(d).hi
    /\ is_sky3ds_disk = HasMagic(d)
    /\ rom_list = <<>>
    /\ free_blocks = <<>>
    /\ pos = MagicOffset + MagicBytes
    /\ ops = 1

Init ==
    /\ \/ Opened(Formatted(Blank(NumBlocks * BlockBytes)), MaxOps)
       \/ Opened(Played(Filled(Formatted(Blank(NumBlocks * BlockBytes)),
                              InitRoms)),
                 MaxOps - 1)
       \/ Opened(Filled(Formatted(Blank(FullBlocks * BlockBytes)), SavegameSlots),
                 FullOps)
       \/ OpenedUnformatted(Blank(NumBlocks * BlockBytes))
    /\ out = NoFile
    /\ last = [op |-> "open", arg |-> 0, res |-> "ok"]
    /\ undo = NoUndo
    /\ log = <<>>

Done(op, arg, res) ==
    /\ last' = [op |-> op, arg |-> arg, res |-> res]
    /\ ops' = ops + 1

\* update_rom_list() on the device d
Updated(d) ==
    /\ rom_list' = RomList(d)
    /\ free_blocks' = FreeBlocks(rom_list', disk_size)
    /\ pos' = position_header_length

\* format()
Format ==
    /\ ops < MaxOps
    /\ disk' = Formatted(disk)
    /\ is_sky3ds_disk' = HasMagic(disk')
    /\ Updated(disk')
    /\ Done("format", 0, "ok")
    /\ log' = FormatLog
    /\ undo' = NoUndo
    /\ out' = NoFile
    /\ UNCHANGED disk_size

\* the rom_list index of the record write_rom puts in position free_slot
CreatedSlot(d, free_slot, rom_blocks) ==
    IF rom_blocks > 0
    THEN Cardinality({i \in 0..(free_slot - 1) : Occupied(d, i)})
    ELSE -1

\* write_rom(rom); fail: the chunk write the device fails on, 0 for none
Add(id, fail) ==
    LET rom_blocks == RomBlocks(RomFiles[id].size)
        start_block == FindStart(free_blocks, Len(free_blocks), rom_blocks)
        free_slot == FreeSlot(disk)
        checks == WriteRomResult(is_sky3ds_disk, free_blocks, disk, id)
        failed == FailedChunk(Last(disk).hi, start_block * SectorBytes,
                              RomFiles[id].size, fail)
        len == TransferredLen(Last(disk).hi, start_block * SectorBytes,
                              RomFiles[id].size, fail)
        res == IF checks = "ok" /\ failed # 0 THEN "IOFailure" ELSE checks
    IN  /\ ops < MaxOps
        /\ fail # 0 => (checks = "ok" /\ fail <= Chunks(RomFiles[id].size))
        /\ Done("add", id, res)
        /\ CASE res = "ok" ->
                  /\ disk' = RomWritten(disk, rom_list, id, start_block,
                                        rom_blocks, free_slot)
                  /\ Updated(disk')
                  /\ log' = WriteRomLog(Chunks(RomFiles[id].size))
                  /\ undo' = <<[stage |-> "added",
                                id |-> id,
                                at |-> free_slot,
                                created |-> CreatedSlot(disk, free_slot, rom_blocks),
                                table |-> ReadAt(disk, 0, position_header_length),
                                n |-> Len(rom_list),
                                free |-> free_blocks]>>
             [] res = "IOFailure" ->
                  /\ disk' = Interrupted(disk, id, start_block, rom_blocks,
                                         free_slot, len)
                  /\ pos' = start_block * SectorBytes + len
                  /\ log' = InterruptedLog(failed)
                  /\ undo' = NoUndo
                  /\ UNCHANGED <<rom_list, free_blocks>>
             [] OTHER ->
                  /\ pos' = CASE res = "SlotTableFull" -> FreeSlotPos(free_slot)
                              [] res = "InvalidTemplate" -> start_block * SectorBytes
                              [] OTHER -> pos
                  /\ log' = <<>>
                  /\ undo' = NoUndo
                  /\ UNCHANGED <<disk, rom_list, free_blocks>>
        /\ out' = NoFile
        /\ UNCHANGED <<disk_size, is_sky3ds_disk>>

\* delete_rom(slot), slot >= 0
Delete(slot) ==
    LET n == Len(rom_list)
        moved == SavegamesMoved(disk, slot, n)
        p == SavegamesMovedPos(pos, slot, n)
        blanked == SavegameBlanked(moved, p)
        res == IF FailOnNonSky3ds(is_sky3ds_disk) THEN "NotFormatted"
               ELSE IF p + MiB > disk_size THEN "IOFailure"
               ELSE "ok"
    IN  /\ ops < MaxOps
        /\ Done("delete", slot, res)
        /\ CASE res = "NotFormatted" ->
                  /\ undo' = NoUndo
                  /\ log' = <<>>
                  /\ UNCHANGED <<disk, rom_list, free_blocks, pos>>
             [] res = "IOFailure" ->
                  /\ disk' = blanked
                  /\ log' = SubSeq(DeleteLog(slot, n), 1,
                                   Len(DeleteLog(slot, n)) - 1)
                  /\ pos' = disk_size
                  /\ undo' = NoUndo
                  /\ UNCHANGED <<rom_list, free_blocks>>
             [] OTHER ->
                  /\ disk' = HeaderRewritten(blanked, slot)
                  /\ log' = DeleteLog(slot, n)
                  /\ Updated(disk')
                  /\ undo' = IF undo # NoUndo /\ undo[1].stage = "added"
                                /\ undo[1].created = slot
                             THEN <<[undo[1] EXCEPT !.stage = "deleted"]>>
                             ELSE NoUndo
        /\ out' = NoFile
        /\ UNCHANGED <<disk_size, is_sky3ds_disk>>

\* dump_rom(slot, output)
Extract(slot) ==
    LET i == PyIndex(Len(rom_list), slot)
        res == IF FailOnNonSky3ds(is_sky3ds_disk) THEN "NotFormatted"
               ELSE IF i = 0 THEN "IndexError"
               ELSE "ok"
    IN  /\ ops < MaxOps
        /\ Done("extract", slot, res)
        /\ log' = <<>>
        /\ IF res = "ok"
           THEN /\ out' = RomFile(RomDumped(disk, rom_list[i].start, rom_list[i].size))
                /\ pos' = DumpEnd(rom_list[i].start, rom_list[i].size, disk_size)
                /\ undo' = IF undo # NoUndo /\ undo[1].stage = "added"
                              /\ undo[1].created = slot
                           THEN <<[undo[1] EXCEPT !.stage = "extracted"]>>
                           ELSE NoUndo
           ELSE /\ out' = NoFile
                /\ undo' = NoUndo
                /\ UNCHANGED pos
        /\ UNCHANGED <<disk, disk_size, is_sky3ds_disk, rom_list, free_blocks>>

\* dump_savegame(slot, output)
DumpSavegame(slot) ==
    LET n == Len(rom_list)
        i == PyIndex(n, slot)
        res == IF FailOnNonSky3ds(is_sky3ds_disk) THEN "NotFormatted"
               ELSE IF slot >= n THEN "SlotNotFound"
               ELSE IF i = 0 THEN "IndexError"
               ELSE "ok"
    IN  /\ ops < MaxOps
        /\ undo' = NoUndo
        /\ log' = <<>>
        /\ UNCHANGED <<disk, disk_size, is_sky3ds_disk, rom_list, free_blocks>>
        /\ IF res # "ok"
           THEN /\ Done("dump_savegame", slot, res)
                /\ out' = NoFile
                /\ UNCHANGED pos
           ELSE LET start == rom_list[i].start
                    wa == ReadAt(disk, start + SectorBytes, 4)
                    uid == ReadAt(disk, start + CardDataOffset + 64, 64)
                IN  \E h \in NcsdHeader(ReadAt(disk, start, NcsdHeaderBytes)) :
                      LET at == IF h.card_type = "Card1" THEN MiB * (slot + 1)
                                ELSE start + h.writable_address
                          len == IF h.card_type = "Card1" THEN MiB
                                 ELSE SavegameChunks * MiB
                          data == ReadAt(disk, at, len)
                      IN  IF at < 0
                          THEN \* seek to a negative offset raises
                               /\ Done("dump_savegame", slot, "IOFailure")
                               /\ out' = SaveFile(h, wa, uid, <<>>)
                               /\ pos' = start + CardDataOffset + 64 + 64
                          ELSE /\ Done("dump_savegame", slot, "ok")
                               /\ out' = SaveFile(h, wa, uid, data)
                               /\ pos' = at + ByteLen(data)

\* the savegame file of write_savegame(savefile): 0 is the file the last call
\* wrote, n > 0 a backup made elsewhere for product code n
SaveFileOf(n) == IF n = 0 THEN out ELSE ForeignSave(n)

\* write_savegame(savefile)
Restore(n) ==
    LET f == SaveFileOf(n)
        i == FindGame(disk, rom_list, f.product_code)
        res == IF FailOnNonSky3ds(is_sky3ds_disk) THEN "NotFormatted"
               ELSE IF f.kind # "save" THEN "InvalidSavegameFile"
               ELSE IF i = 0 THEN "GameNotFound"
               ELSE "ok"
    IN  /\ ops < MaxOps
        /\ Done("restore", n, res)
        /\ undo' = NoUndo
        /\ out' = NoFile
        /\ UNCHANGED <<disk_size, is_sky3ds_disk, rom_list, free_blocks>>
        /\ CASE res = "ok" ->
                  \E h \in NcsdHeader(ReadAt(disk, rom_list[i].start,
                                             NcsdHeaderBytes)) :
                      /\ disk' = SavegameWritten(disk, rom_list[i].start,
                                                 i - 1, h, f)
                      /\ pos' = SavegameAt(h, rom_list[i].start, i - 1)
                                 + Min(ByteLen(f.data), SavegameLen(h))
                      /\ log' = WriteSavegameLog(h)
             [] res = "GameNotFound" ->
                  /\ pos' = FindGamePos(pos, rom_list, i)
                  /\ log' = <<>>
                  /\ UNCHANGED disk
             [] OTHER ->
                  /\ log' = <<>>
                  /\ UNCHANGED <<disk, pos>>

\* update_rom_list()
UpdateRomList ==
    /\ ops < MaxOps
    /\ undo' = NoUndo
    /\ out' = NoFile
    /\ log' = <<>>
    /\ UNCHANGED <<disk, disk_size, is_sky3ds_disk>>
    /\ IF FailOnNonSky3ds(is_sky3ds_disk)
       THEN /\ Done("update_rom_list", 0, "NotFormatted")
            /\ UNCHANGED <<rom_list, free_blocks, pos>>
       ELSE /\ Done("update_rom_list", 0, "ok")
            /\ Updated(disk)

\* the slots the calls are made with: the first two, the last one, the two
\* after it, the number of records of the header, and negative ones
EdgeSlots ==
    {slot \in {0, 1, Len(rom_list) - 1, Len(rom_list), Len(rom_list) + 1} :
        slot >= 0}
DeleteSlots == EdgeSlots \cup {position_header_length \div RecordBytes}
ReadSlots ==
    {0 - (Len(rom_list) + 1), -1} \cup (EdgeSlots \ {Len(rom_list) + 1})
FailChunks == {0, 2}
SaveFiles == (IF out.kind = "none" THEN {} ELSE {0}) \cup {1, Len(RomFiles) + 1}

Next ==
    \/ Format
    \/ \E id \in RomIds : \E fail \in FailChunks : Add(id, fail)
    \/ \E slot \in DeleteSlots : Delete(slot)
    \/ \E slot \in ReadSlots : Extract(slot)
    \/ \E slot \in ReadSlots : DumpSavegame(slot)
    \/ \E n \in SaveFiles : Restore(n)
    \/ UpdateRomList

Spec == Init /\ [][Next]_vars

\* ------------------------------------------------------------ the allocator
\* the device d after a delete_rom(slot) of a listed slot
Deleted(d, slot) ==
    LET n == Len(RomList(d))
        moved == SavegamesMoved(d, slot, n)
    IN  HeaderRewritten(SavegameBlanked(moved, SavegamesMovedPos(0, slot, n)),
                        slot)

\* the device d, with a one-block rom in each of the blocks 1..b, after
\* delete_rom of the roms in the blocks not in keep, the last one first
RECURSIVE Kept(_, _, _)
Kept(d, keep, b) ==
    IF b = 0 THEN d
    ELSE LET next == IF b \in keep THEN d ELSE Deleted(d, b - 1)
         IN  IF next = <<>> THEN next ELSE Kept(next, keep, b - 1)

\* a device of AllocBlocks blocks filled with one-block roms of which those
\* in some blocks were deleted, opened for one call
InitAlloc ==
    /\ \E keep \in SUBSET (1..(AllocBlocks - 1)) :
          Opened(Kept(Filled(Formatted(Blank(AllocBlocks * BlockBytes)),
                             AllocBlocks - 1),
                      keep, AllocBlocks - 1),
                 1)
    /\ out = NoFile
    /\ last = [op |-> "open", arg |-> 0, res |-> "ok"]
    /\ undo = NoUndo
    /\ log = <<>>

NextAlloc == \E id \in RomIds : Add(id, 0)

SpecAlloc == InitAlloc /\ [][NextAlloc]_vars

\* ------------------------------------------------------------ properties
\* do the byte windows [start, start + size) of records a and b overlap
Overlap(a, b) == a.start < b.start + b.size /\ b.start < a.start + a.size

\* is any byte of [lo, hi) of d a byte of a rom or of its card data
RomBytesIn(d, lo, hi) ==
    \E i \in 1..Len(d) :
        d[i].lo < hi /\ d[i].hi > lo /\ d[i].t.k \in {"rom", "hdr"}

\* C1: on a formatted device, after any sequence of add and delete, the byte
\* windows [start, start + size) of two distinct occupied slot records never
\* overlap.
C1_SlotsDisjoint ==
    is_sky3ds_disk =>
        \A i, j \in 1..Len(rom_list) :
            i # j => ~Overlap(rom_list[i], rom_list[j])

\* C2: delete(slot) of an occupied slot changes no byte at or beyond 0x2000000
\* and brings no byte of the rom data region into the staging regions, for
\* every number of occupied slots from 1 to 31.
C2_DeleteKeepsRomData ==
    [][(/\ last'.op = "delete"
        /\ is_sky3ds_disk
        /\ last'.arg < Len(rom_list))
       => /\ Slice(disk', BlockBytes, disk_size) = Slice(disk, BlockBytes, disk_size)
          /\ (RomBytesIn(disk', MiB, BlockBytes) => RomBytesIn(disk, MiB, BlockBytes))
      ]_vars

\* C3: delete(slot) with a slot that names no occupied slot fails with
\* SlotNotFound before any write: no device byte changes and the device still
\* has its magic marker.
C3_DeleteRejectsUnoccupied ==
    [][(/\ last'.op = "delete"
        /\ is_sky3ds_disk
        /\ last'.arg >= Len(rom_list))
       => /\ last'.res = "SlotNotFound"
          /\ disk' = disk
          /\ HasMagic(disk')
      ]_vars

\* the (start, size) pairs of the records of roms, in order
Windows(roms) ==
    Seq0([i \in 1..Len(roms) |-> <<roms[i].start, roms[i].size>>])

\* the sequence s without its k-th element, k counted from 0
Without(s, k) ==
    Seq0([i \in 1..(Len(s) - 1) |-> IF i <= k THEN s[i] ELSE s[i + 1]])

\* the 1 MiB staging region of slot j of d
Staging(d, j) == ReadAt(d, MiB * (j + 1), MiB)

\* C4: after delete(k) with L occupied slots, 0 <= k < L, the slot list read
\* back is the previous list without its k-th record: L - 1 records in their
\* original order with unchanged start and size, and the table position freed
\* at the end holds the sentinel.
C4_DeleteRemovesKth ==
    [][(/\ last'.op = "delete"
        /\ is_sky3ds_disk
        /\ last'.arg < Len(rom_list))
       => /\ Windows(rom_list') = Without(Windows(rom_list), last'.arg)
          /\ Position(disk', Len(rom_list) - 1) = <<-1, -1>>
      ]_vars

\* C5: after delete(k) with L occupied slots, for every L from 1 to 31, the
\* staging region of each new slot j in k..L-2 holds what the staging region
\* of old slot j+1 held, the staging regions of the slots below k are
\* unchanged, and the vacated staging region of old slot L-1 is all 0xFF.
C5_DeleteShiftsSavegames ==
    [][(/\ last'.op = "delete"
        /\ is_sky3ds_disk
        /\ last'.arg < Len(rom_list))
       => LET k == last'.arg
              L == Len(rom_list)
          IN  /\ \A j \in k..(L - 2) : Staging(disk', j) = Staging(disk, j + 1)
              /\ \A j \in 0..(k - 1) : Staging(disk', j) = Staging(disk, j)
              /\ Staging(disk', L - 1) = Bytes(0, MiB, Fill(FF))
      ]_vars

\* the bytes of rom file id with [0x1400, 0x1600) replaced by 0xFF
Stripped(id) ==
    LET size == RomFiles[id].size
        rom == Bytes(0, size, RomData(id, 0))
        lo == Min(CardDataOffset, size)
        hi == Min(CardDataOffset + CardDataBytes, size)
    IN  Join(Join(Slice(rom, 0, lo), Bytes(lo, hi - lo, Fill(FF))),
             Slice(rom, hi, size))

\* C6: for every rom that add accepts, extract of the slot that add created
\* yields a byte stream of the length of the rom, equal to the rom outside
\* [0x1400, 0x1600) and 0xFF inside that range.
C6_AddExtractRoundTrip ==
    (undo # NoUndo /\ undo[1].stage = "extracted")
    => /\ ByteLen(out.data) = RomFiles[undo[1].id].size
       /\ out.data = Stripped(undo[1].id)

\* are the records of roms block-aligned and pairwise non-overlapping
AlignedDisjoint(roms) ==
    /\ \A i \in 1..Len(roms) :
          roms[i].start % BlockBytes = 0 /\ roms[i].size % BlockBytes = 0
    /\ \A i, j \in 1..Len(roms) : i # j => ~Overlap(roms[i], roms[j])

\* the blocks of a device of n blocks that a record of roms spans, and block 0
SpannedBlocks(roms, n) ==
    {b \in 0..(n - 1) :
        \/ b = 0
        \/ \E i \in 1..Len(roms) :
              /\ roms[i].start <= b * BlockBytes
              /\ b * BlockBytes < roms[i].start + roms[i].size}

\* the blocks of free region r, a (start, length) pair in sectors
RegionBlocks(r) ==
    {b \in (r[1] \div BlockSectors)..((r[1] + r[2]) \div BlockSectors - 1) : TRUE}

RECURSIVE TotalLength(_, _)
TotalLength(free, i) ==
    IF i = 0 THEN 0 ELSE free[i][2] + TotalLength(free, i - 1)

RECURSIVE TotalSize(_, _)
TotalSize(roms, i) ==
    IF i = 0 THEN 0 ELSE roms[i].size + TotalSize(roms, i - 1)

\* C7: for a slot table whose occupied records are block-aligned and
\* non-overlapping, the free regions of the rebuilt block map are pairwise
\* disjoint maximal runs of blocks that together hold exactly the blocks
\* 1..N-1 no record spans, their lengths sum to N - 1 - (blocks spanned by
\* roms), and the list is in descending order of length.
C7_FreeRegionsExact ==
    (is_sky3ds_disk /\ AlignedDisjoint(rom_list))
    => LET n == disk_size \div BlockBytes
           used == SpannedBlocks(rom_list, n)
           regions == 1..Len(free_blocks)
       IN  /\ \A i \in regions :
                 /\ free_blocks[i][1] % BlockSectors = 0
                 /\ free_blocks[i][2] % BlockSectors = 0
                 /\ free_blocks[i][2] > 0
                 /\ (free_blocks[i][1] \div BlockSectors) - 1 \in used
                 /\ LET end == (free_blocks[i][1] + free_blocks[i][2])
                                  \div BlockSectors
                    IN  end = n \/ end \in used
           /\ \A i, j \in regions :
                 i # j => RegionBlocks(free_blocks[i])
                              \cap RegionBlocks(free_blocks[j]) = {}
           /\ UNION {RegionBlocks(free_blocks[i]) : i \in regions}
                 = (0..(n - 1)) \ used
           /\ TotalLength(free_blocks, Len(free_blocks))
                 = (n - 1) * BlockSectors
                   - TotalSize(rom_list, Len(rom_list)) \div SectorBytes
           /\ \A i \in regions :
                 i < Len(free_blocks) => free_blocks[i][2] >= free_blocks[i + 1][2]

\* a rebuilt block map with a rom and two free regions of different lengths
C7_Witness ==
    /\ is_sky3ds_disk
    /\ AlignedDisjoint(rom_list)
    /\ Len(rom_list) >= 1
    /\ \E i, j \in 1..Len(free_blocks) : free_blocks[i][2] > free_blocks[j][2]

\* C8: add places the rom at the start of a free region whose length is the
\* least among the free regions of length >= n, the sectors asked for, and it
\* fails with InsufficientSpace exactly when no free region has length >= n.
C8_BestFit ==
    [][(last'.op = "add" /\ is_sky3ds_disk)
       => LET n == RomBlocks(RomFiles[last'.arg].size)
              fits == {i \in 1..Len(free_blocks) : free_blocks[i][2] >= n}
          IN  /\ (last'.res = "InsufficientSpace") <=> (fits = {})
              /\ last'.res = "ok"
                 => \E i \in fits :
                       /\ Position(disk', undo'[1].at)[1] = free_blocks[i][1]
                       /\ \A j \in fits : free_blocks[i][2] <= free_blocks[j][2]
      ]_vars

\* an add that had two free regions of different lengths to choose from
C8_Witness ==
    /\ last.op = "add"
    /\ last.res = "ok"
    /\ undo # NoUndo
    /\ LET n == RomBlocks(RomFiles[last.arg].size)
           free == undo[1].free
       IN  \E i, j \in 1..Len(free) :
              free[i][2] > free[j][2] /\ free[j][2] >= n

\* the set of the regions of a free list
RegionSet(free) == {free[i] : i \in 1..Len(free)}

\* C9: a successful add followed by delete of the slot that add created
\* restores the slot-table bytes, the number of occupied slots and the set of
\* free regions to what they were before the add.
C9_AddDeleteRestores ==
    (undo # NoUndo /\ undo[1].stage = "deleted")
    => /\ ReadAt(disk, 0, position_header_length) = undo[1].table
       /\ Len(rom_list) = undo[1].n
       /\ RegionSet(free_blocks) = RegionSet(undo[1].free)

\* C10: extract(slot) and dump_savegame(slot) fail for every slot outside
\* 0..L-1, negative ones included, and write nothing of the device to the
\* output.
C10_ReadRejectsOutOfRange ==
    (/\ last.op \in {"extract", "dump_savegame"}
     /\ is_sky3ds_disk
     /\ (last.arg < 0 \/ last.arg >= Len(rom_list)))
    => /\ last.res \in {"SlotNotFound", "IndexError"}
       /\ out = NoFile

\* C11: on a device that did not validate as formatted, add, extract, delete,
\* savegame dump, savegame restore and the block-map rebuild each fail with
\* NotFormatted and write nothing: only format changes such a device.
C11_NotFormattedRejects ==
    [][(~is_sky3ds_disk /\ last'.op # "format")
       => /\ last'.res = "NotFormatted"
          /\ disk' = disk
          /\ ~is_sky3ds_disk'
      ]_vars

\* a delete_rom refused on a device without the magic marker
C11_Witness ==
    /\ ~is_sky3ds_disk
    /\ last.op = "delete"
    /\ last.res = "NotFormatted"

\* is record i of the position header of d the sentinel (-1, -1)
Sentinel(d, i) == Position(d, i) = <<-1, -1>>

\* the records of the position header of d that are not the sentinel
Records(d) ==
    {i \in 0..(position_header_length \div RecordBytes - 1) : ~Sentinel(d, i)}

\* does some free region hold rom file id
Fits(free, id) ==
    \E j \in 1..Len(free) : free[j][2] >= RomBlocks(RomFiles[id].size)

\* C12 as stated: the slot table holds at most 31 occupied records, add writes
\* a record only into the first position among 0..30 that holds the sentinel,
\* and whenever none of these 31 positions holds the sentinel add fails with
\* SlotTableFull and writes no device byte.
C12_FullTableIsSlotTableFull ==
    [][(is_sky3ds_disk /\ last'.op = "add"
        /\ \A i \in 0..(SavegameSlots - 1) : ~Sentinel(disk, i))
       => (last'.res = "SlotTableFull" /\ disk' = disk)
      ]_vars

\* C12, amended: the slot table of a formatted device holds at most 31
\* records that are not the sentinel; a successful add changes exactly one
\* record, the first among 0..30 that held the sentinel; when none of these 31
\* holds the sentinel add writes no device byte and fails, with SlotTableFull
\* if a free region fits the rom and with InsufficientSpace if none does.
C12_AtMost31Slots ==
    [][/\ is_sky3ds_disk' => Cardinality(Records(disk')) <= SavegameSlots
       /\ (last'.op = "add" /\ last'.res = "ok")
          => \E s \in 0..(SavegameSlots - 1) :
                /\ Sentinel(disk, s)
                /\ \A i \in 0..(s - 1) : ~Sentinel(disk, i)
                /\ Records(disk') = Records(disk) \cup {s}
                /\ \A i \in Records(disk) : Position(disk', i) = Position(disk, i)
       /\ (is_sky3ds_disk /\ last'.op = "add"
           /\ \A i \in 0..(SavegameSlots - 1) : ~Sentinel(disk, i))
          => /\ disk' = disk
             /\ last'.res = IF Fits(free_blocks, last'.arg) THEN "SlotTableFull"
                            ELSE "InsufficientSpace"
      ]_vars

\* an add refused with SlotTableFull: 31 records, a free block, no byte written
C12_Witness ==
    /\ last.op = "add"
    /\ last.res = "SlotTableFull"
    /\ Cardinality(Records(disk)) = SavegameSlots
    /\ free_blocks # <<>>

\* do the last two bytes of the card data of the rom at start hold, high byte
\* first, the crc16 of the 510 bytes before them
TrailerOk(d, start) ==
    LET card == start + CardDataOffset
        n == CardDataBytes - ChecksumBytes
    IN  ReadAt(d, card + n, ChecksumBytes)
          = Bytes(0, ChecksumBytes, Crc(ReadAt(d, card, n), 0))

Payload(d, roms, s, h) ==
    IF h.card_type = "Card1"
    THEN ReadAt(d, MiB * (s + 1), MiB)
    ELSE ReadAt(d, roms[s + 1].start + h.writable_address, SavegameChunks * MiB)

\* C14: a savegame dump of slot s followed at once by the restore of the file
\* it wrote succeeds and leaves the savegame payload area of slot s
\* byte-identical, for a Card1 and for a Card2 rom whose header on the device
\* is intact.
C14_DumpRestoreRoundTrip ==
    [][(/\ last.op = "dump_savegame" /\ last.res = "ok"
        /\ 0 <= last.arg /\ last.arg < Len(rom_list)
        /\ Decodable(disk, rom_list[last.arg + 1].start)
        /\ last'.op = "restore" /\ last'.arg = 0)
       => /\ last'.res = "ok"
          /\ \A h \in NcsdHeader(ReadAt(disk, rom_list[last.arg + 1].start,
                                        NcsdHeaderBytes)) :
                h.card_type = out.card_type
                => /\ Payload(disk', rom_list, last.arg, h)
                        = Payload(disk, rom_list, last.arg, h)
                   /\ Payload(disk', rom_list, last.arg, h) = out.data
      ]_vars

\* the backup of a Card2 rom has been restored: the file position is at the
\* end of the 10 MiB at rom_start + writable_address
C14_Witness ==
    /\ last.op = "restore"
    /\ last.arg = 0
    /\ last.res = "ok"
    /\ \E i \in 1..Len(rom_list) :
          \E h \in NcsdHeader(ReadAt(disk, rom_list[i].start, NcsdHeaderBytes)) :
             /\ h.card_type = "Card2"
             /\ pos = rom_list[i].start + h.writable_address
                      + SavegameChunks * MiB

\* C15: the size add stores in the slot record is ceil(rom size / 512)
\* sectors: recorded size x 512 >= the byte length of the rom, and a rom of
\* less than 512 bytes is recorded with size 1, never 0.
C15_RecordedSizeCeil ==
    (last.op = "add" /\ last.res = "ok")
    => LET size == RomFiles[last.arg].size
           recorded == Position(disk, undo[1].at)[2]
       IN  /\ recorded = (size + SectorBytes - 1) \div SectorBytes
           /\ recorded * SectorBytes >= size
           /\ recorded >= 1

Calls(l, names) == {i \in 1..Len(l) : l[i] \in names}

\* C17: during add the slot record, the staging fill and the card data are
\* written only after the last chunk of rom data has been written and
\* flushed; an add that stops earlier (InsufficientSpace, SlotTableFull,
\* InvalidTemplate, an I/O failure in the transfer) leaves the 256-byte slot
\* table and all staging regions byte-identical.
C17_LayoutWrittenAfterTransfer ==
    [][last'.op = "add"
       => /\ \A i \in Calls(log', {"table", "staging", "card_data"}) :
                /\ \A j \in Calls(log', {"rom"}) :
                      j < i /\ \E k \in Calls(log', {"fsync"}) : j < k /\ k < i
                /\ last'.res = "ok"
          /\ last'.res = "ok"
             => /\ Calls(log', {"table"}) # {}
                /\ Calls(log', {"staging"}) # {}
                /\ Calls(log', {"card_data"}) # {}
          /\ last'.res # "ok"
             => /\ ReadAt(disk', 0, position_header_length)
                     = ReadAt(disk, 0, position_header_length)
                /\ ReadAt(disk', MiB, SavegameSlots * MiB)
                     = ReadAt(disk, MiB, SavegameSlots * MiB)
                /\ rom_list' = rom_list
                /\ free_blocks' = free_blocks
      ]_vars

\* an add stopped by an I/O failure after a chunk was written and flushed:
\* rom bytes are on the device, no record was written
C17_Witness ==
    /\ last.op = "add"
    /\ last.res = "IOFailure"
    /\ Calls(log, {"fsync"}) # {}
    /\ RomBytesIn(disk, BlockBytes, disk_size)
    /\ rom_list = <<>>

\* C18: every completed operation that writes durable layout state (format,
\* add, delete, savegame restore) issues a flush after its last write to the
\* slot table, the staging regions or the card data, before it rebuilds the
\* block map or returns.
C18_FlushedBeforeReturn ==
    (last.op \in {"format", "add", "delete", "restore"} /\ last.res = "ok")
    => \A i \in Calls(log, {"table", "staging", "card_data"}) :
          \E k \in Calls(log, {"fsync"}) : i < k

\* C19: in every state reached by format, add and delete the slot index
\* listed for a rom equals the position of its record in the table on the
\* device: the records of the listed roms are a gap-free prefix of the table.
C19_SlotIndexIsTablePosition ==
    is_sky3ds_disk
    => \A i \in 0..(position_header_length \div RecordBytes - 1) :
          /\ Occupied(disk, i) <=> i < Len(rom_list)
          /\ i < Len(rom_list)
             => /\ rom_list[i + 1].slot = i
                /\ rom_list[i + 1].start = Position(disk, i)[1] * SectorBytes
                /\ rom_list[i + 1].size = Position(disk, i)[2] * SectorBytes

\* C20: after a successful add that stores its record at table position s,
\* the staging region at (s + 1) MiB is entirely 0xFF, the staging region of
\* every slot occupied before is unchanged, and the region add has blanked is
\* the one of the record it wrote.
C20_AddBlanksOwnStaging ==
    [][(last'.op = "add" /\ last'.res = "ok")
       => LET s == undo'[1].at
          IN  /\ Staging(disk', s) = Bytes(0, MiB, Fill(FF))
              /\ \A i \in Records(disk) : Staging(disk', i) = Staging(disk, i)
              /\ StagingFillAt(rom_list) = MiB * (s + 1)
      ]_vars

\* what d holds for the listed slots other than s: for each its staging
\* region and its rom window [start, start + size)
Others(d, roms, s) ==
    [j \in (0..(Len(roms) - 1)) \ {s} |->
        <<Staging(d, j), ReadAt(d, roms[j + 1].start, roms[j + 1].size)>>]

\* C21: the restore of a backup dumped from slot s changes only bytes of slot
\* s: the slot table, the staging region of every other slot and the window
\* [start, start + size) of every other rom are unchanged, also when two
\* slots hold roms of one product code.
C21_RestoreChangesOnlyItsSlot ==
    [][(/\ last.op = "dump_savegame" /\ last.res = "ok"
        /\ 0 <= last.arg /\ last.arg < Len(rom_list)
        /\ last'.op = "restore" /\ last'.arg = 0 /\ last'.res = "ok")
       => /\ ReadAt(disk', 0, position_header_length)
               = ReadAt(disk, 0, position_header_length)
          /\ Others(disk', rom_list, last.arg) = Others(disk, rom_list, last.arg)
      ]_vars

\* C22: every slot record written by add has a start that is a multiple of
\* 32 MiB and at least 0x2000000, and its window [start, start + size) ends
\* at or before the size of the device; of block 0 add changes only the
\* record it writes and a staging region it fills with 0xFF, and an add that
\* fails changes nothing of block 0.
C22_RecordsAlignedAndBounded ==
    [][last'.op = "add"
       => IF last'.res = "ok"
          THEN LET at == undo'[1].at
                   start == Position(disk', at)[1] * SectorBytes
                   size == Position(disk', at)[2] * SectorBytes
               IN  /\ start % BlockBytes = 0
                   /\ start >= BlockBytes
                   /\ size >= 0
                   /\ start + size <= disk_size
                   /\ Last(disk').hi = disk_size
                   /\ \A i \in 0..(position_header_length \div RecordBytes - 1) :
                         i # at => Position(disk', i) = Position(disk, i)
                   /\ ReadAt(disk', position_header_length,
                             MiB - position_header_length)
                        = ReadAt(disk, position_header_length,
                                 MiB - position_header_length)
                   /\ \A j \in 0..(SavegameSlots - 1) :
                         \/ Staging(disk', j) = Staging(disk, j)
                         \/ Staging(disk', j) = Bytes(0, MiB, Fill(FF))
          ELSE ReadAt(disk', 0, BlockBytes) = ReadAt(disk, 0, BlockBytes)
      ]_vars

\* an add has written a record whose window ends where the device ends
C22_Witness ==
    /\ last.op = "add"
    /\ last.res = "ok"
    /\ Position(disk, undo[1].at)[2] > 0
    /\ (Position(disk, undo[1].at)[1] + Position(disk, undo[1].at)[2])
         * SectorBytes = disk_size

\* the regions of the free list free of the least length that is at least n
Tightest(free, n) ==
    {r \in RegionSet(free) :
        /\ r[2] >= n
        /\ \A q \in RegionSet(free) : q[2] >= n => r[2] <= q[2]}

\* C23: when several free regions share the smallest sufficient length, add
\* takes the one with the highest start, the first one met when the list
\* sorted by descending length is walked from its tail; the region taken is
\* a function of the free regions and the request.
C23_TieBreakHighestStart ==
    [][(last'.op = "add" /\ last'.res = "ok")
       => LET tight == Tightest(free_blocks,
                                RomBlocks(RomFiles[last'.arg].size))
          IN  /\ tight # {}
              /\ \A r \in tight : r[1] <= Position(disk', undo'[1].at)[1]
              /\ \E r \in tight : r[1] = Position(disk', undo'[1].at)[1]
              /\ \A i, j \in 1..Len(free_blocks) :
                    (i < j /\ free_blocks[i][2] = free_blocks[j][2])
                    => free_blocks[i][1] < free_blocks[j][1]
      ]_vars

\* an add that had two free regions of the smallest sufficient length to
\* choose from
C23_Witness ==
    /\ last.op = "add"
    /\ last.res = "ok"
    /\ undo # NoUndo
    /\ Cardinality(Tightest(undo[1].free,
                            RomBlocks(RomFiles[last.arg].size))) >= 2

====
